---------------------------- MODULE Spec2Model ----------------------------
(***************************************************************************)
(* Kolam generator backend (src/main.py and src/backend.py).               *)
(*                                                                         *)
(* Two server programs share one design: a Flask handler generate() that   *)
(* parses and validates a JSON request, and a core generate_kolam_base64() *)
(* that builds a curve with KolamDraw.generate_pattern(), draws it on a    *)
(* matplotlib figure, encodes the figure as a PNG data URI and reports a   *)
(* path count.  The variable `variant` says which of the two files runs.   *)
(*                                                                         *)
(* Three specifications:                                                   *)
(*   SpecCurve    KolamDraw.generate_pattern as a function of its inputs   *)
(*   Spec         one request handled from arrival to response             *)
(*   SpecThreads  several requests handled on concurrent threads           *)
(*                                                                         *)
(* Real numbers are fixed-point integers in units of 1/Scale.  Rounding    *)
(* noise of IEEE doubles (about 1e-16) is below that resolution.           *)
(***************************************************************************)
EXTENDS Integers, Sequences, FiniteSets, TLC

VARIABLES
    variant,     \* "main" or "backend": the source file that is running
    kd,          \* SpecCurve: the KolamDraw object [ND, boundary_type]
    cpc,         \* SpecCurve: "init", "constructed", "bound", then "done"
    curve,       \* SpecCurve: the array generate_pattern returned
    complexity,  \* SpecCurve: the local `complexity` of generate_pattern
    threads,     \* the request threads of this run
    pc,          \* pc[t]: where thread t stands in generate / the core
    req,         \* req[t]: the JSON body thread t received
    args,        \* args[t]: the arguments generate passed to the core
    loc,         \* loc[t]: the core's locals (colour, pattern, fig, ...)
    result,      \* result[t]: what generate_kolam_base64 returned
    response,    \* response[t]: what generate answered
    figures,     \* every Figure object created so far, by identity
    Gcf,         \* pyplot's registry of open figures, the last is current
    hist         \* hist[t]: which shared objects thread t's calls touched

vars == <<variant, kd, cpc, curve, complexity, threads, pc, req, args, loc,
          result, response, figures, Gcf, hist>>

curveVars  == <<kd, cpc, curve, complexity>>
serverVars == <<threads, pc, req, args, loc, result, response, figures,
                Gcf, hist>>

Variants == {"main", "backend"}

(***************************************************************************)
(* Program constants.                                                      *)
(***************************************************************************)
MinND == 5
MaxND == 25

ValidBoundaries == {"diamond", "fish", "waves", "corners", "fractal", "organic"}

Odd(n) == n % 2 = 1

ValidNDs == {n \in MinND..MaxND : Odd(n)}

Min(a, b) == IF a <= b THEN a ELSE b
Max(a, b) == IF a >= b THEN a ELSE b

(***************************************************************************)
(* Fixed-point arithmetic: a real r is the integer r * Scale.              *)
(***************************************************************************)
Scale == 10^3

Mul(a, b) == (a * b) \div Scale

\* 4*np.pi in units of 1/Scale
FourPi == 12566

\* cos of the angle 2*pi*m/d for -1/4 <= m/d <= 1/4 (Bhaskara's rational
\* approximation, exact at 0, 1/6 and 1/4 of a turn).
CosFrac(m, d) == ((d * d - 16 * m * m) * Scale) \div (d * d + 4 * m * m)

\* cos of p/q of a full turn, p >= 0, q > 0
CosTurn(p, q) ==
    LET A == (4 * p) % (4 * q)
    IN  IF A <= q THEN CosFrac(A, 4 * q)
        ELSE IF A >= 3 * q THEN CosFrac(A - 4 * q, 4 * q)
        ELSE 0 - CosFrac(A - 2 * q, 4 * q)

\* sin x = cos(x - pi/2); the argument is kept in quarters of 1/q
SinTurn(p, q) ==
    LET A == (4 * p + 3 * q) % (4 * q)
    IN  IF A <= q THEN CosFrac(A, 4 * q)
        ELSE IF A >= 3 * q THEN CosFrac(A - 4 * q, 4 * q)
        ELSE 0 - CosFrac(A - 2 * q, 4 * q)

\* exp(-z) for z >= 0 by its Taylor series, terms 0..10
RECURSIVE ExpTerm(_, _)
ExpTerm(z, k) == IF k = 0 THEN Scale ELSE (ExpTerm(z, k - 1) * z) \div (k * Scale)

RECURSIVE ExpSum(_, _)
ExpSum(z, k) ==
    LET term == IF k % 2 = 0 THEN ExpTerm(z, k) ELSE 0 - ExpTerm(z, k)
    IN  IF k = 0 THEN term ELSE ExpSum(z, k - 1) + term

ExpNeg(z) == ExpSum(z, 10)


(***************************************************************************)
(* KolamDraw (main.py 36-83, backend.py 63-94).                            *)
(* The samples are t[i] = 4*pi*i/q for i = 0..q with q = n - 1, so the     *)
(* angle k*t[i] is 2*k*i/q of a full turn.                                 *)
(***************************************************************************)
T(i, q)      == (FourPi * i) \div q
Cos(k, i, q) == CosTurn(2 * k * i, q)
Sin(k, i, q) == SinTurn(2 * k * i, q)

\* complexity = min(ND / 10, 1.5)
ComplexityUncapped(ND) == (ND * Scale) \div 10
Complexity(ND) == Min((ND * Scale) \div 10, 1500)

\* the sample count passed to np.linspace
SampleCount(v, ND) ==
    IF v = "main" THEN Max(ND * 12, 100) ELSE Max(ND * 10, 80)

diamond_pattern(i, q, c) ==
    << Cos(1, i, q) + Mul(Mul(c, 500), Cos(3, i, q)),
       Sin(1, i, q) + Mul(Mul(c, 500), Sin(3, i, q)) >>

fish_pattern(i, q, c) ==
    << Mul(Cos(1, i, q), Scale + Mul(Mul(c, 400), Cos(5, i, q))),
       Mul(Sin(1, i, q), Scale + Mul(Mul(c, 400), Sin(5, i, q))) >>

waves_pattern(i, q, c) ==
    << (T(i, q) * Scale) \div (2 * Scale + c) + Cos(1, i, q),
       Sin(1, i, q) + Mul(Mul(c, 300), Sin(7, i, q)) >>

corners_pattern(i, q, c) ==
    LET decay == ExpNeg((T(i, q) * Scale) \div (8 * Scale + c * 2))
    IN  << Mul(Cos(1, i, q), decay), Mul(Sin(1, i, q), decay) >>

fractal_pattern(i, q, c) ==
    << Cos(1, i, q) + Mul(Mul(c, 400), Cos(7, i, q)),
       Sin(1, i, q) + Mul(Mul(c, 400), Sin(5, i, q)) >>

organic_pattern(i, q, c) ==
    << Cos(1, i, q) + Mul(Mul(c, 500), Sin(3, i, q)),
       Sin(1, i, q) + Mul(Mul(c, 500), Cos(3, i, q)) >>

\* main.py: patterns.get(self.boundary_type, patterns['diamond'])
PatternsGet(bt, i, q, c) ==
    CASE bt = "diamond" -> diamond_pattern(i, q, c)
      [] bt = "fish"    -> fish_pattern(i, q, c)
      [] bt = "waves"   -> waves_pattern(i, q, c)
      [] bt = "corners" -> corners_pattern(i, q, c)
      [] bt = "fractal" -> fractal_pattern(i, q, c)
      [] bt = "organic" -> organic_pattern(i, q, c)
      [] OTHER          -> diamond_pattern(i, q, c)

\* main.py generate_pattern: the chosen family, then x[0], y[0] appended
generate_pattern_main(ND, bt) ==
    LET c  == Complexity(ND)
        n  == SampleCount("main", ND)
        xy == [i \in 1..n |-> PatternsGet(bt, i - 1, n - 1, c)]
    IN  Append(xy, xy[1])

\* backend.py generate_pattern: an if/elif chain whose else is organic;
\* the amplitudes are literals and nothing is appended
BackendPoint(bt, i, q) ==
    IF bt = "diamond" THEN
        << Cos(1, i, q) + Mul(500, Cos(3, i, q)),
           Sin(1, i, q) + Mul(500, Sin(3, i, q)) >>
    ELSE IF bt = "fish" THEN
        << Mul(Cos(1, i, q), Scale + Mul(400, Cos(5, i, q))),
           Mul(Sin(1, i, q), Scale + Mul(400, Sin(5, i, q))) >>
    ELSE IF bt = "waves" THEN
        << T(i, q) \div 4 + Cos(1, i, q),
           Sin(1, i, q) + Mul(300, Sin(7, i, q)) >>
    ELSE IF bt = "corners" THEN
        << Mul(Cos(1, i, q), ExpNeg(T(i, q) \div 12)),
           Mul(Sin(1, i, q), ExpNeg(T(i, q) \div 12)) >>
    ELSE IF bt = "fractal" THEN
        << Cos(1, i, q) + Mul(400, Cos(7, i, q)),
           Sin(1, i, q) + Mul(400, Sin(5, i, q)) >>
    ELSE
        << Cos(1, i, q) + Mul(500, Sin(3, i, q)),
           Sin(1, i, q) + Mul(500, Cos(3, i, q)) >>

generate_pattern_backend(ND, bt) ==
    LET n == SampleCount("backend", ND)
    IN  [i \in 1..n |-> BackendPoint(bt, i - 1, n - 1)]

generate_pattern(v, ND, bt) ==
    IF v = "main" THEN generate_pattern_main(ND, bt)
    ELSE generate_pattern_backend(ND, bt)

(***************************************************************************)
(* SpecCurve: a KolamDraw object is constructed, given a boundary and      *)
(* asked for its pattern.                                                  *)
(***************************************************************************)
OtherBoundaries == {"star", "Fish"}

NoKD == [ND |-> 0, boundary_type |-> ""]

\* KolamDraw.__init__
KolamDrawInit(ND) ==
    /\ cpc = "init"
    /\ kd' = [ND |-> ND, boundary_type |-> "diamond"]
    /\ cpc' = "constructed"
    /\ UNCHANGED <<variant, curve, complexity, serverVars>>

\* KolamDraw.set_boundary
SetBoundary(bt) ==
    /\ cpc = "constructed"
    /\ kd' = [kd EXCEPT !.boundary_type = bt]
    /\ cpc' = "bound"
    /\ UNCHANGED <<variant, curve, complexity, serverVars>>

\* KolamDraw.generate_pattern
GeneratePattern ==
    /\ cpc = "bound"
    /\ curve' = generate_pattern(variant, kd.ND, kd.boundary_type)
    /\ complexity' = IF variant = "main" THEN {Complexity(kd.ND)} ELSE {}
    /\ cpc' = "done"
    /\ UNCHANGED <<variant, kd, serverVars>>

NoThreadState ==
    /\ threads = {}
    /\ pc = <<>>
    /\ req = <<>>
    /\ args = <<>>
    /\ loc = <<>>
    /\ result = <<>>
    /\ response = <<>>
    /\ figures = <<>>
    /\ Gcf = <<>>
    /\ hist = <<>>

InitCurve ==
    /\ variant \in Variants
    /\ kd = NoKD
    /\ cpc = "init"
    /\ curve = <<>>
    /\ complexity = {}
    /\ NoThreadState

NextCurve ==
    \/ \E ND \in ValidNDs : KolamDrawInit(ND)
    \/ \E bt \in ValidBoundaries \cup OtherBoundaries : SetBoundary(bt)
    \/ GeneratePattern

SpecCurve == InitCurve /\ [][NextCurve]_vars


(***************************************************************************)
(* JSON values of a request body and the Python conversions generate()     *)
(* applies to them.  A value is [k, n, s]: its kind, its number (ND in     *)
(* units, sigmaref in hundredths, a bool as 0/1) and its string.           *)
(***************************************************************************)
Num(n)  == [k |-> "num", n |-> n, s |-> ""]
Str(s)  == [k |-> "str", n |-> 0, s |-> s]
Bool(b) == [k |-> "bool", n |-> IF b THEN 1 ELSE 0, s |-> ""]
Null    == [k |-> "null", n |-> 0, s |-> ""]
Absent  == [k |-> "absent", n |-> 0, s |-> ""]

Ok(v)      == [ok |-> TRUE, n |-> v, s |-> "", exc |-> ""]
OkStr(s)   == [ok |-> TRUE, n |-> 0, s |-> s, exc |-> ""]
Raise(exc) == [ok |-> FALSE, n |-> 0, s |-> "", exc |-> exc]

\* data.get(key, default): the default only when the key is absent
\* int(): a number as it is, a decimal string parsed, anything else raises
PyInt(raw, default) ==
    CASE raw.k = "absent" -> Ok(default)
      [] raw.k = "num"    -> Ok(raw.n)
      [] raw.k = "bool"   -> Ok(raw.n)
      [] raw.k = "str"    -> IF raw.s = "6" THEN Ok(6)
                             ELSE IF raw.s = "7" THEN Ok(7)
                             ELSE Raise("ValueError")
      [] OTHER            -> Raise("TypeError")

\* float(), in hundredths
PyFloat(raw, default) ==
    CASE raw.k = "absent" -> Ok(default)
      [] raw.k = "num"    -> Ok(raw.n)
      [] raw.k = "bool"   -> Ok(raw.n * 100)
      [] raw.k = "str"    -> Raise("ValueError")
      [] OTHER            -> Raise("TypeError")

\* str.lower() on the strings of the model
LowerStr(s) == IF s = "Fish" THEN "fish" ELSE IF s = "DARK" THEN "dark" ELSE s

\* data.get(key, default).lower(): only a str has the method
PyLower(raw, default) ==
    CASE raw.k = "absent" -> OkStr(default)
      [] raw.k = "str"    -> OkStr(LowerStr(raw.s))
      [] OTHER            -> Raise("AttributeError")

\* data.get(key, default) kept as it is (backend.py); a value that is no
\* str is carried by its kind, which equals none of the strings compared to
PyGet(raw, default) ==
    CASE raw.k = "absent" -> OkStr(default)
      [] raw.k = "str"    -> OkStr(raw.s)
      [] OTHER            -> OkStr("<" \o raw.k \o ">")

\* data.get('kolam_color', None)
NoneColor == "<None>"
PyColor(raw) == IF raw.k \in {"absent", "null"} THEN NoneColor
                ELSE IF raw.k = "str" THEN raw.s ELSE "<" \o raw.k \o ">"

\* bool(data.get('one_stroke', False))
PyBool(raw) ==
    CASE raw.k \in {"absent", "null"} -> FALSE
      [] raw.k \in {"num", "bool"}    -> raw.n # 0
      [] OTHER                        -> raw.s # ""

\* the first conversion that raises, in the order the handler converts
FirstRaise(convs) ==
    IF \A i \in 1..Len(convs) : convs[i].ok THEN ""
    ELSE convs[CHOOSE i \in 1..Len(convs) :
                   /\ ~convs[i].ok
                   /\ \A j \in 1..(i - 1) : convs[j].ok].exc

DefaultND(v) == IF v = "main" THEN 15 ELSE 13

\* generate(): the parameter extraction (main.py 237-242, backend.py 198-203)
Extract(v, body) ==
    LET nd  == PyInt(body.ND, DefaultND(v))
        sg  == PyFloat(body.sigmaref, 65)
        bt  == IF v = "main" THEN PyLower(body.boundary_type, "diamond")
               ELSE PyGet(body.boundary_type, "diamond")
        th  == IF v = "main" THEN PyLower(body.theme, "light")
               ELSE PyGet(body.theme, "light")
    IN  [exc           |-> FirstRaise(<<nd, sg, bt, th>>),
         ND            |-> nd.n,
         NDok          |-> nd.ok,
         sigmaref      |-> sg.n,
         boundary_type |-> bt.s,
         theme         |-> th.s,
         kolam_color   |-> PyColor(body.kolam_color),
         one_stroke    |-> PyBool(body.one_stroke)]

\* if ND % 2 == 0 or ND < 5 or ND > 25
NDRejectedNoParity(ND) == ND < MinND \/ ND > MaxND
NDRejected(ND) == ND % 2 = 0 \/ ND < MinND \/ ND > MaxND

\* if not 0 <= sigmaref <= 1                       (main.py only)
SigmaRejected(v, sg) == v = "main" /\ ~(0 <= sg /\ sg <= 100)

\* if boundary_type not in valid_boundaries        (main.py only)
BoundaryRejected(v, bt) == v = "main" /\ bt \notin ValidBoundaries

\* the status of the except clause that takes an exception of generate()
HandlerStatus(v, exc) == IF v = "main" /\ exc = "ValueError" THEN 400 ELSE 500


(***************************************************************************)
(* generate_kolam_base64: its locals, the figure it draws on and pyplot's  *)
(* registry of figures.                                                    *)
(***************************************************************************)
DefaultColors(bt) ==
    CASE bt = "diamond" -> "#e377c2"
      [] bt = "corners" -> "#1f77b4"
      [] bt = "fish"    -> "#ff7f0e"
      [] bt = "waves"   -> "#2ca02c"
      [] bt = "fractal" -> "#9467bd"
      [] bt = "organic" -> "#8c564b"
      [] OTHER          -> "#1f77b4"

\* main.py: if kolam_color is None; backend.py: kolam_color or ...
ResolveColor(v, kolam_color, bt) ==
    IF v = "main"
    THEN IF kolam_color = NoneColor THEN DefaultColors(bt) ELSE kolam_color
    ELSE IF kolam_color \in {NoneColor, ""} THEN DefaultColors(bt) ELSE kolam_color

\* main.py: theme.lower() == 'dark'; backend.py: theme == 'dark'
BgColor(v, theme) ==
    IF (IF v = "main" THEN LowerStr(theme) ELSE theme) = "dark"
    THEN "#1a1a1a" ELSE "white"

\* what matplotlib accepts as a colour, among the strings of the model
ColorLike(c) == c \in {"#e377c2", "#1f77b4", "#ff7f0e", "#2ca02c", "#9467bd",
                       "#8c564b", "#123456", "white", "#1a1a1a"}

\* the array generate_pattern returns, carried by the call that made it;
\* SpecCurve computes its points
PatternLen(v, ND) == IF v = "main" THEN SampleCount(v, ND) + 1 ELSE SampleCount(v, ND)

PatternRef(v, ND, bt) ==
    [ND |-> ND,
     family |-> IF bt \in ValidBoundaries THEN bt
                ELSE IF v = "main" THEN "diamond" ELSE "organic",
     len |-> PatternLen(v, ND)]

NoPattern == [ND |-> 0, family |-> "", len |-> 0]

\* main.py 116-117: the number of decorative dots scattered
DotCount(v, ND, bt) ==
    IF v = "main" /\ bt \in {"diamond", "fish", "organic"}
    THEN Min(ND \div 2, 12) ELSE 0

\* np.linspace(start, stop, num, dtype=int) for 0 <= start <= stop: the
\* samples start + i*(stop - start)/(num - 1), floored, the last one stop
Linspace(start, stop, num) ==
    IF num <= 0 THEN <<>>
    ELSE IF num = 1 THEN <<start>>
    ELSE [i \in 1..num |->
             IF i = num THEN stop
             ELSE start + ((i - 1) * (stop - start)) \div (num - 1)]

\* main.py 116-117: dot_indices, when the family takes dots
DotIndicesPastEnd(v, ND, bt) ==
    Linspace(0, PatternLen(v, ND), DotCount(v, ND, bt))
DotIndices(v, ND, bt) ==
    Linspace(0, PatternLen(v, ND) - 1, DotCount(v, ND, bt))

\* a Figure object as plt.subplots returns it
NewFigure(t, bg) ==
    [owner |-> t, facecolor |-> bg, lines |-> <<>>, dots |-> <<>>,
     limits |-> FALSE, tight |-> FALSE]

\* Gcf: the figure plt.gcf() returns is the last of the registry
Current(G) == G[Len(G)]

\* Gcf.destroy_fig: the figure leaves the registry
RECURSIVE Destroy(_, _)
Destroy(G, f) ==
    IF G = <<>> THEN <<>>
    ELSE IF Head(G) = f THEN Destroy(Tail(G), f)
    ELSE <<Head(G)>> \o Destroy(Tail(G), f)

IsOpen(f) == \E i \in 1..Len(Gcf) : Gcf[i] = f

\* savefig(..., facecolor=bg_color) + b64encode + the data URI prefix
DataURI(fig, bg) ==
    [prefix |-> "data:image/png;base64,",
     facecolor |-> bg, lines |-> fig.lines, dots |-> fig.dots,
     limits |-> fig.limits, tight |-> fig.tight]

NoImage == [prefix |-> "", facecolor |-> "", lines |-> <<>>, dots |-> <<>>,
            limits |-> FALSE, tight |-> FALSE]

\* np.random.randint(low, high): the integers low..high-1, none if low >= high
Randint(low, high) == low..(high - 1)

\* the exclusive upper end of the draw when one_stroke is false
PathCountHighOffByOne(v, ND) ==
    IF v = "main" THEN Min(ND \div 3 + 1, 6) ELSE 4
PathCountHigh(v, ND) ==
    IF v = "main" THEN Min(ND \div 3 + 2, 6) ELSE 5

\* the values path_count may take
PathCounts(v, ND, one_stroke) ==
    IF one_stroke
    THEN IF v = "main" THEN {1, 2} ELSE {1}
    ELSE Randint(2, PathCountHigh(v, ND))

\* 'is_one_stroke': path_count == 1
IsOneStrokeFromRequest(path_count, one_stroke) == one_stroke
IsOneStroke(path_count, one_stroke) == path_count = 1

\* except Exception as e: every exception of the model derives from it
CatchesValueErrorOnly(exc) == exc = "ValueError"
CoreCatches(exc) ==
    exc \in {"ValueError", "TypeError", "AttributeError", "MemoryError"}

SuccessResult(image, path_count, one_stroke, bt) ==
    [success |-> TRUE, image |-> image, path_count |-> path_count,
     is_one_stroke |-> IsOneStroke(path_count, one_stroke),
     boundary_type |-> bt]

FailureResult(msg) == [success |-> FALSE, error |-> msg]

Propagated(exc) == [raised |-> exc]

NoResult == [pending |-> TRUE]

NoBody == [empty |-> TRUE, ND |-> Absent, sigmaref |-> Absent,
           boundary_type |-> Absent, theme |-> Absent,
           kolam_color |-> Absent, one_stroke |-> Absent]

NoArgs == [exc |-> "", ND |-> 0, NDok |-> FALSE, sigmaref |-> 0,
           boundary_type |-> "", theme |-> "", kolam_color |-> "",
           one_stroke |-> FALSE]

NoLoc == [color |-> "", bg |-> "", pattern |-> NoPattern, fig |-> 0,
          image |-> NoImage]

NoResponse == [status |-> 0, body |-> NoResult]

NoHist == [core |-> FALSE, pattern |-> FALSE, laid |-> 0, saved |-> 0,
           closed |-> 0]


(***************************************************************************)
(* The request handler generate() and the steps of the core, per thread.   *)
(***************************************************************************)
ErrorResponse(status, msg) == [status |-> status, body |-> FailureResult(msg)]

\* generate(), from the request to the call of the core or to a rejection
\* (main.py 220-256, backend.py 190-208)
Generate(t, body) ==
    /\ pc[t] = "idle"
    /\ req' = [req EXCEPT ![t] = body]
    /\ LET a == Extract(variant, body)
           reject(status, msg) ==
               /\ response' = [response EXCEPT ![t] = ErrorResponse(status, msg)]
               /\ pc' = [pc EXCEPT ![t] = "done"]
               /\ UNCHANGED <<args, hist>>
       IN  IF body.empty THEN reject(400, "No JSON data provided")
           ELSE IF a.exc # "" THEN reject(HandlerStatus(variant, a.exc), a.exc)
           ELSE IF NDRejected(a.ND) THEN reject(400, "ND must be odd number between 5-25")
           ELSE IF SigmaRejected(variant, a.sigmaref)
                THEN reject(400, "sigmaref must be between 0 and 1")
           ELSE IF BoundaryRejected(variant, a.boundary_type)
                THEN reject(400, "boundary_type must be one of valid_boundaries")
           ELSE /\ args' = [args EXCEPT ![t] = a]
                /\ hist' = [hist EXCEPT ![t].core = TRUE]
                /\ pc' = [pc EXCEPT ![t] = "core"]
                /\ UNCHANGED response
    /\ UNCHANGED <<variant, curveVars, threads, loc, result, figures, Gcf>>

\* the except clause of generate_kolam_base64 (main.py 161-168,
\* backend.py 147-149)
Except(t, exc, msg) ==
    /\ result' = [result EXCEPT ![t] =
                     IF CoreCatches(exc) THEN FailureResult(msg) ELSE Propagated(exc)]
    /\ pc' = [pc EXCEPT ![t] = IF CoreCatches(exc) THEN "returned" ELSE "raised"]

\* colours, background and the pattern (main.py 87-105, backend.py 98-112)
CoreBegin(t) ==
    /\ pc[t] = "core"
    /\ loc' = [loc EXCEPT ![t] =
                 [color   |-> ResolveColor(variant, args[t].kolam_color,
                                           args[t].boundary_type),
                  bg      |-> BgColor(variant, args[t].theme),
                  pattern |-> PatternRef(variant, args[t].ND, args[t].boundary_type),
                  fig     |-> 0,
                  image   |-> NoImage]]
    /\ hist' = [hist EXCEPT ![t].pattern = TRUE]
    /\ pc' = [pc EXCEPT ![t] = "subplots"]
    /\ UNCHANGED <<variant, curveVars, threads, req, args, result, response,
                   figures, Gcf>>

\* fig, ax = plt.subplots(...); ax.set_facecolor(bg_color)
\* (main.py 108-109, backend.py 115-116); the allocation may fail
Subplots(t, ok) ==
    /\ pc[t] = "subplots"
    /\ IF ok
       THEN /\ figures' = Append(figures, NewFigure(t, loc[t].bg))
            /\ Gcf' = Append(Gcf, Len(figures) + 1)
            /\ loc' = [loc EXCEPT ![t].fig = Len(figures) + 1]
            /\ pc' = [pc EXCEPT ![t] = "plot"]
            /\ UNCHANGED result
       ELSE /\ Except(t, "MemoryError", "could not allocate the figure")
            /\ UNCHANGED <<figures, Gcf, loc>>
    /\ UNCHANGED <<variant, curveVars, threads, req, args, response, hist>>

\* ax.plot(...) and, in main.py, ax.scatter(...) on the thread's own axes
\* (main.py 112-119, backend.py 118); a colour matplotlib rejects raises
Plot(t) ==
    /\ pc[t] = "plot"
    /\ IF ColorLike(loc[t].color)
       THEN /\ figures' = [figures EXCEPT ![loc[t].fig] =
                   [@ EXCEPT !.lines = Append(@, [pattern |-> loc[t].pattern,
                                                 color |-> loc[t].color]),
                             !.dots = DotIndices(variant, args[t].ND,
                                               args[t].boundary_type)]]
            /\ pc' = [pc EXCEPT ![t] = "limits"]
            /\ UNCHANGED result
       ELSE /\ Except(t, "ValueError", "not a valid value for color")
            /\ UNCHANGED figures
    /\ UNCHANGED <<variant, curveVars, threads, req, args, loc, response, Gcf, hist>>

\* max_coord, margin, set_xlim, set_ylim, set_aspect, axis('off')
\* (main.py 122-127, backend.py 120-125).  backend.py passes the scalar
\* np.max(np.abs(pattern)) to the builtin max(), which raises TypeError.
Limits(t) ==
    /\ pc[t] = "limits"
    /\ IF variant = "main"
       THEN /\ figures' = [figures EXCEPT ![loc[t].fig].limits = TRUE]
            /\ pc' = [pc EXCEPT ![t] = "tight_layout"]
            /\ UNCHANGED result
       ELSE /\ Except(t, "TypeError", "'numpy.float64' object is not iterable")
            /\ UNCHANGED figures
    /\ UNCHANGED <<variant, curveVars, threads, req, args, loc, response, Gcf, hist>>

\* plt.tight_layout(): lays out pyplot's current figure (main.py 130,
\* backend.py 126)
TightLayout(t) ==
    /\ pc[t] = "tight_layout"
    /\ figures' = [figures EXCEPT ![Current(Gcf)].tight = TRUE]
    /\ hist' = [hist EXCEPT ![t].laid = Current(Gcf)]
    /\ pc' = [pc EXCEPT ![t] = "savefig"]
    /\ UNCHANGED <<variant, curveVars, threads, req, args, loc, result, response, Gcf>>

\* plt.savefig(buffer, ...) of pyplot's current figure, then b64encode
\* (main.py 133-138, backend.py 129-132); the encoder may fail
Savefig(t, ok) ==
    /\ pc[t] = "savefig"
    /\ IF ok
       THEN /\ loc' = [loc EXCEPT ![t].image =
                          DataURI(figures[Current(Gcf)], loc[t].bg)]
            /\ hist' = [hist EXCEPT ![t].saved = Current(Gcf)]
            /\ pc' = [pc EXCEPT ![t] = "close"]
            /\ UNCHANGED result
       ELSE /\ Except(t, "MemoryError", "could not encode the image")
            /\ UNCHANGED <<loc, hist>>
    /\ UNCHANGED <<variant, curveVars, threads, req, args, response, figures, Gcf>>

\* plt.close(fig) (main.py 139, backend.py 133)
Close(t) ==
    /\ pc[t] = "close"
    /\ Gcf' = Destroy(Gcf, loc[t].fig)
    /\ hist' = [hist EXCEPT ![t].closed = loc[t].fig]
    /\ pc' = [pc EXCEPT ![t] = "path_count"]
    /\ UNCHANGED <<variant, curveVars, threads, req, args, loc, result, response,
                   figures>>

\* the path count and the success result (main.py 141-159,
\* backend.py 135-145); a draw over an empty range raises ValueError
PathCount(t) ==
    /\ pc[t] = "path_count"
    /\ LET choices == PathCounts(variant, args[t].ND, args[t].one_stroke)
       IN  IF choices = {}
           THEN Except(t, "ValueError", "low >= high")
           ELSE \E n \in choices :
                   /\ result' = [result EXCEPT ![t] =
                          SuccessResult(loc[t].image, n, args[t].one_stroke,
                                        args[t].boundary_type)]
                   /\ pc' = [pc EXCEPT ![t] = "returned"]
    /\ UNCHANGED <<variant, curveVars, threads, req, args, loc, response, figures,
                   Gcf, hist>>

\* generate() after the core: return jsonify(result), or the except clause
\* of generate() when the core raised (main.py 258-275, backend.py 209-213)
Respond(t) ==
    /\ pc[t] \in {"returned", "raised"}
    /\ response' = [response EXCEPT ![t] =
          IF pc[t] = "returned" THEN [status |-> 200, body |-> result[t]]
          ELSE ErrorResponse(HandlerStatus(variant, result[t].raised),
                             result[t].raised)]
    /\ pc' = [pc EXCEPT ![t] = "done"]
    /\ UNCHANGED <<variant, curveVars, threads, req, args, loc, result, figures,
                   Gcf, hist>>

(***************************************************************************)
(* The request bodies clients send.                                        *)
(***************************************************************************)
NDMargin == 2

EmptyBody == NoBody

Bodies ==
    {EmptyBody} \cup
    [empty         : {FALSE},
     ND            : {Num(n) : n \in (MinND - NDMargin)..(MaxND + NDMargin)}
                     \cup {Str("abc"), Str("6"), Null, Absent},
     sigmaref      : {Num(0), Num(100), Num(101), Num(0 - 1), Str("abc"), Null},
     boundary_type : {Str(b) : b \in ValidBoundaries \cup OtherBoundaries}
                     \cup {Num(5)},
     theme         : {Str("light"), Str("dark"), Num(1)},
     kolam_color   : {Absent, Str("#123456"), Str("notacolor")},
     one_stroke    : {Bool(TRUE), Absent}]

ConcBodies ==
    [empty         : {FALSE},
     ND            : {Num(5), Num(15)},
     sigmaref      : {Absent},
     boundary_type : {Str("diamond"), Str("waves")},
     theme         : {Str("light")},
     kolam_color   : {Absent, Str("notacolor")},
     one_stroke    : {Absent}]

NoCurveState ==
    /\ kd = NoKD
    /\ cpc = "idle"
    /\ curve = <<>>
    /\ complexity = {}

InitServer(ts) ==
    /\ variant \in Variants
    /\ NoCurveState
    /\ threads = ts
    /\ pc = [t \in ts |-> "idle"]
    /\ req = [t \in ts |-> NoBody]
    /\ args = [t \in ts |-> NoArgs]
    /\ loc = [t \in ts |-> NoLoc]
    /\ result = [t \in ts |-> NoResult]
    /\ response = [t \in ts |-> NoResponse]
    /\ figures = <<>>
    /\ Gcf = <<>>
    /\ hist = [t \in ts |-> NoHist]

\* a request with one of the bodies B reaches an idle thread
Request(t, B) ==
    /\ pc[t] = "idle"
    /\ \E body \in B : Generate(t, body)

\* one request
Init == InitServer(1..1)

Next ==
    \/ \E t \in 1..1 : Request(t, Bodies)
    \/ \E t \in 1..1 : CoreBegin(t)
    \/ \E t \in 1..1, ok \in BOOLEAN : Subplots(t, ok)
    \/ \E t \in 1..1 : Plot(t)
    \/ \E t \in 1..1 : Limits(t)
    \/ \E t \in 1..1 : TightLayout(t)
    \/ \E t \in 1..1, ok \in BOOLEAN : Savefig(t, ok)
    \/ \E t \in 1..1 : Close(t)
    \/ \E t \in 1..1 : PathCount(t)
    \/ \E t \in 1..1 : Respond(t)

Spec == Init /\ [][Next]_vars

\* app.run(threaded=True): NThreads requests in flight at once
NThreads == 2

InitThreads == InitServer(1..NThreads)

NextThreads ==
    \/ \E t \in 1..NThreads : Request(t, ConcBodies)
    \/ \E t \in 1..NThreads : CoreBegin(t)
    \/ \E t \in 1..NThreads, ok \in BOOLEAN : Subplots(t, ok)
    \/ \E t \in 1..NThreads : Plot(t)
    \/ \E t \in 1..NThreads : Limits(t)
    \/ \E t \in 1..NThreads : TightLayout(t)
    \/ \E t \in 1..NThreads, ok \in BOOLEAN : Savefig(t, ok)
    \/ \E t \in 1..NThreads : Close(t)
    \/ \E t \in 1..NThreads : PathCount(t)
    \/ \E t \in 1..NThreads : Respond(t)

SpecThreads == InitThreads /\ [][NextThreads]_vars


(***************************************************************************)
(* Properties.                                                             *)
(***************************************************************************)
Returned(t) == hist[t].core /\ pc[t] \in {"returned", "raised", "done"}

Succeeded(t) ==
    /\ Returned(t)
    /\ "success" \in DOMAIN result[t]
    /\ result[t].success

Failed(t) ==
    /\ Returned(t)
    /\ "success" \in DOMAIN result[t]
    /\ ~result[t].success

\* the request of thread t carries an ND that converts to an integer which
\* is even, below 5 or above 25
InvalidNDRequest(t) ==
    /\ ~req[t].empty
    /\ PyInt(req[t].ND, DefaultND(variant)).ok
    /\ LET n == PyInt(req[t].ND, DefaultND(variant)).n
       IN  n % 2 = 0 \/ n < 5 \/ n > 25

\* the image of thread t's own curve on thread t's own figure
OwnImage(t) ==
    [prefix |-> "data:image/png;base64,",
     facecolor |-> loc[t].bg,
     lines |-> << [pattern |-> PatternRef(variant, args[t].ND, args[t].boundary_type),
                   color |-> loc[t].color] >>,
     dots |-> DotIndices(variant, args[t].ND, args[t].boundary_type),
     limits |-> TRUE,
     tight |-> TRUE]

\* C1: once an invocation of generate_kolam_base64 has created its figure,
\* the figure is closed (no longer registered with pyplot) by the time the
\* invocation returns, on success and on failure alike.
C1_FigureClosedOnReturn ==
    \A t \in threads :
        (Returned(t) /\ loc[t].fig # 0) => ~IsOpen(loc[t].fig)

\* C2: concurrent invocations share no state: each lays out, saves and
\* closes only its own figure, and the image it returns is the image of its
\* own curve on its own figure.
C2_OwnFigureOnly ==
    \A t \in threads :
        /\ hist[t].laid \in {0, loc[t].fig}
        /\ hist[t].saved \in {0, loc[t].fig}
        /\ hist[t].closed \in {0, loc[t].fig}
        /\ Succeeded(t) => result[t].image = OwnImage(t)

\* C3: generate_kolam_base64 is invoked only for a request whose ND is an
\* odd integer in [5,25], whose sigmaref is in [0,1] and whose
\* boundary_type is one of the six families.
C3_CoreOnlyAfterAllChecks ==
    \A t \in threads :
        hist[t].core =>
            /\ args[t].ND % 2 = 1 /\ 5 <= args[t].ND /\ args[t].ND <= 25
            /\ 0 <= args[t].sigmaref /\ args[t].sigmaref <= 100
            /\ args[t].boundary_type \in
                   {"diamond", "fish", "waves", "corners", "fractal", "organic"}

\* C4 as stated: every request whose ND is even, below 5 or above 25 is
\* answered with success = false and HTTP 400, and neither the core nor
\* generate_pattern runs for it.
C4_InvalidNDIs400 ==
    \A t \in threads :
        (InvalidNDRequest(t) /\ pc[t] = "done") =>
            /\ response[t].status = 400
            /\ response[t].body.success = FALSE
            /\ ~hist[t].core
            /\ ~hist[t].pattern

\* C4 as amended: every request whose ND is even, below 5 or above 25 is
\* answered with success = false and neither the core nor generate_pattern
\* runs for it; the status is 400 when the other fields convert, and when
\* the conversion of a later field raises it is the status of the except
\* clause that takes the exception: 400 for a ValueError in main.py, 500
\* otherwise.
C4_InvalidNDRejected ==
    \A t \in threads :
        InvalidNDRequest(t) =>
            /\ ~hist[t].core
            /\ ~hist[t].pattern
            /\ pc[t] = "done"
            /\ response[t].body.success = FALSE
            /\ LET exc == Extract(variant, req[t]).exc
               IN  response[t].status =
                       IF exc = "" THEN 400
                       ELSE IF variant = "main" /\ exc = "ValueError" THEN 400
                       ELSE 500

\* C4 witness: a request with ND = 6 has been answered with 400
C4_Witness ==
    \E t \in threads :
        /\ InvalidNDRequest(t)
        /\ req[t].ND = Num(6)
        /\ pc[t] = "done"
        /\ response[t].status = 400

\* C5: for a boundary_type outside the six families generate_pattern
\* returns exactly the curve it returns for 'diamond' with the same ND.
C5_UnknownFallsBackToDiamond ==
    (cpc = "done" /\ kd.boundary_type \notin ValidBoundaries) =>
        curve = generate_pattern(variant, kd.ND, "diamond")

\* C6: for each of the six families and every odd ND in [5,25] the curve is
\* non-empty, its last point equals its first point, and it holds at least
\* the sample-count floor of points (100 in main.py, 80 in backend.py).
C6_ClosedCurve ==
    (cpc = "done" /\ kd.boundary_type \in ValidBoundaries) =>
        /\ Len(curve) > 0
        /\ curve[Len(curve)] = curve[1]
        /\ Len(curve) >= (IF variant = "main" THEN 100 ELSE 80)

\* C7: a successful invocation with one_stroke = false and odd ND in [5,25]
\* reports 2 <= path_count <= 6, never 1, and the draw never fails for an
\* empty range: no invocation ends with the error of the draw, and for each
\* file and each odd ND in [5,25] the range drawn from is a non-empty
\* subset of 2..6.
C7_PathCountRange ==
    /\ \A t \in threads :
          (Succeeded(t) /\ ~args[t].one_stroke /\ args[t].ND \in ValidNDs) =>
              /\ 2 <= result[t].path_count
              /\ result[t].path_count <= 6
              /\ result[t].path_count # 1
    /\ \A t \in threads :
          (Failed(t) /\ args[t].ND \in ValidNDs) => result[t].error # "low >= high"
    /\ \A v \in Variants, ND \in ValidNDs :
          /\ PathCounts(v, ND, FALSE) # {}
          /\ PathCounts(v, ND, FALSE) \subseteq 2..6

\* C7 witness: a successful invocation with one_stroke = false at ND = 5,
\* where the range of the draw is narrowest
C7_Witness ==
    \E t \in threads :
        /\ Succeeded(t)
        /\ ~args[t].one_stroke
        /\ args[t].ND = 5
        /\ result[t].path_count = 2

\* C8: in every success result is_one_stroke is true iff path_count = 1;
\* so one_stroke = false never yields is_one_stroke = true, and
\* one_stroke = true yields is_one_stroke = false exactly when 2 was drawn.
C8_IsOneStrokeIffOne ==
    \A t \in threads :
        Succeeded(t) =>
            /\ result[t].is_one_stroke = (result[t].path_count = 1)
            /\ ~args[t].one_stroke => ~result[t].is_one_stroke
            /\ args[t].one_stroke =>
                   (~result[t].is_one_stroke <=> result[t].path_count = 2)

\* C8 witness: one_stroke = true, the alternative value 2 was drawn
C8_Witness ==
    \E t \in threads :
        /\ Succeeded(t)
        /\ args[t].one_stroke
        /\ result[t].path_count = 2
        /\ ~result[t].is_one_stroke

\* C9: generate_kolam_base64 never propagates an exception: every
\* invocation that has ended has returned a result; a failure result holds
\* success = false and an error message and nothing else; a result holds an
\* image only when success = true.
C9_NoExceptionEscapes ==
    \A t \in threads :
        /\ pc[t] # "raised"
        /\ Returned(t) =>
              /\ "success" \in DOMAIN result[t]
              /\ ~result[t].success => DOMAIN result[t] = {"success", "error"}
              /\ "image" \in DOMAIN result[t] => result[t].success

\* C9 witness: an invocation failed after its figure was created and
\* returned a failure result
C9_Witness ==
    \E t \in threads :
        /\ Failed(t)
        /\ loc[t].fig # 0
        /\ pc[t] = "returned"

PatternLenAgrees ==
    cpc = "done" => Len(curve) = PatternLen(variant, kd.ND)

\* thread t has plotted its curve on its figure
Plotted(t) == loc[t].fig # 0 /\ figures[loc[t].fig].lines # <<>>

\* the parts of C11 that do not speak of the stride: dots only for diamond,
\* fish and organic; then min(ND//2, 12) <= 12 of them, non-decreasing, from
\* 0 to the last index of the curve, each an index of the curve
MarkersWellPlaced(t) ==
    LET d    == figures[loc[t].fig].dots
        last == loc[t].pattern.len - 1
    IN  /\ d # <<>> => args[t].boundary_type \in {"diamond", "fish", "organic"}
        /\ (variant = "main" /\ args[t].ND \in ValidNDs
              /\ args[t].boundary_type \in {"diamond", "fish", "organic"}) =>
              /\ Len(d) = (IF args[t].ND \div 2 <= 12 THEN args[t].ND \div 2 ELSE 12)
              /\ Len(d) <= 12
              /\ d[1] = 0
              /\ d[Len(d)] = last
              /\ \A i \in 1..(Len(d) - 1) : d[i] <= d[i + 1]
              /\ \A i \in 1..Len(d) : 0 <= d[i] /\ d[i] <= last

\* C11 as stated: dots are overlaid only for diamond, fish and organic; for
\* every odd ND in [5,25] there are min(ND//2, 12) <= 12 indices, they are
\* non-decreasing, every index is an index of the curve, and they are
\* regularly strided from 0 to the last index: every two consecutive
\* indices are the same distance apart.
C11_MarkersEquallyStrided ==
    \A t \in threads :
        Plotted(t) =>
            /\ MarkersWellPlaced(t)
            /\ LET d == figures[loc[t].fig].dots
               IN  \A i, j \in 1..(Len(d) - 1) :
                       d[i + 1] - d[i] = d[j + 1] - d[j]

\* C11 as amended: as stated, but the stride is regular up to truncation:
\* index i (from 0) is the integer part of i*(len-1)/(count-1), so two
\* strides differ by at most one.
C11_MarkersStridedUpToTruncation ==
    \A t \in threads :
        Plotted(t) =>
            /\ MarkersWellPlaced(t)
            /\ LET d    == figures[loc[t].fig].dots
                   last == loc[t].pattern.len - 1
               IN  /\ \A i \in 1..Len(d) :
                          /\ d[i] * (Len(d) - 1) <= (i - 1) * last
                          /\ (i - 1) * last < (d[i] + 1) * (Len(d) - 1)
                   /\ \A i, j \in 1..(Len(d) - 1) :
                          (d[i + 1] - d[i]) - (d[j + 1] - d[j]) \in {0 - 1, 0, 1}

\* C11 witness: ND = 13, diamond: six dots whose strides are 31 and 32
C11_Witness ==
    \E t \in threads :
        /\ Plotted(t)
        /\ variant = "main"
        /\ args[t].ND = 13
        /\ args[t].boundary_type = "diamond"
        /\ figures[loc[t].fig].dots = <<0, 31, 62, 93, 124, 156>>

=============================================================================
